---- MODULE Spec2Model ----
(***************************************************************************)
(* A model of xarrayutils/plotting.py.  The plotting library is modelled   *)
(* as a small world of axes (limits, labels, a current axes) and every     *)
(* helper of the module as one action that records, in order, the library  *)
(* calls it issues together with their arguments.                          *)
(***************************************************************************)
EXTENDS Integers, Sequences, FiniteSets, TLC

VARIABLES gca, xlim, ylim, xlabel, ylabel, op, calls, raised, ret, split

vars == <<gca, xlim, ylim, xlabel, ylabel, op, calls, raised, ret, split>>

\* ------------------------------------------------------------------------
\* Bounds of the model
\* ------------------------------------------------------------------------
MaxLim == 2
MaxCoord == 1
MaxData == 1
MaxGrid == 2
MaxInterval == 2
Scale == 2

\* ------------------------------------------------------------------------
\* The plotting world
\* ------------------------------------------------------------------------
Axes == {"A1", "A2"}

NoneV == "None"

Abs(v) == IF v < 0 THEN -v ELSE v

Max(a, b) == IF a >= b THEN a ELSE b

\* Python truthiness of the values passed as flags
Truthy(v) == v \notin {"False", "None", "''", "0"}

\* One recorded library call: function, target axes, positional arguments
Call(fn, ax, args) == [fn |-> fn, ax |-> ax, args |-> args]

\* The split flags of box_plot before detection, and of every other helper
NoSplit == [x |-> FALSE, y |-> FALSE]

\* The plot calls among a sequence of recorded calls
Plots(cs) == SelectSeq(cs, LAMBDA c : c.fn = "plot")

\* ax argument defaulting: `if ax is None: ax = plt.gca()`
ResolveAx(ax, cur) == IF ax = NoneV THEN cur ELSE ax

\* ------------------------------------------------------------------------
\* center_lim
\* ------------------------------------------------------------------------
Centered_NoAbs(lim) == LET m == Max(lim[1], lim[2]) IN <<-m, m>>

\* np.array([-1, 1]) * abs(lim).max()
Centered(lim) == LET m == Max(Abs(lim[1]), Abs(lim[2])) IN <<-m, m>>

CenterWhich == {"y", "x", "xy", "yx", "z"}

\* The outcome of center_lim(ax, which) on an axes with limits xl, yl
center_lim(ax, which, xl, yl) ==
    CASE which = "y" -> [xlim |-> xl, ylim |-> Centered(yl), raised |-> "none",
                         calls |-> <<Call("get_ylim", ax, <<>>),
                                     Call("set_ylim", ax, Centered(yl))>>]
      [] which = "x" -> [xlim |-> Centered(xl), ylim |-> yl, raised |-> "none",
                         calls |-> <<Call("get_xlim", ax, <<>>),
                                     Call("set_xlim", ax, Centered(xl))>>]
      [] which \in {"xy", "yx"} ->
                        [xlim |-> Centered(xl), ylim |-> Centered(yl), raised |-> "none",
                         calls |-> <<Call("get_xlim", ax, <<>>),
                                     Call("set_xlim", ax, Centered(xl)),
                                     Call("get_ylim", ax, <<>>),
                                     Call("set_ylim", ax, Centered(yl))>>]
      [] OTHER -> [xlim |-> xl, ylim |-> yl, raised |-> "ValueError", calls |-> <<>>]

CenterLim(ax, which) ==
    LET r == center_lim(ax, which, xlim[ax], ylim[ax]) IN
    /\ xlim' = [xlim EXCEPT ![ax] = r.xlim]
    /\ ylim' = [ylim EXCEPT ![ax] = r.ylim]
    /\ op' = [name |-> "center_lim", ax |-> ax, which |-> which]
    /\ calls' = r.calls
    /\ raised' = r.raised
    /\ ret' = 0
    /\ split' = NoSplit
    /\ UNCHANGED <<gca, xlabel, ylabel>>

\* Axis limits an axes can have before a call: any pair of distinct values,
\* in either orientation (an inverted axis has lo > hi)
LimPairs == {l \in (-MaxLim..MaxLim) \X (-MaxLim..MaxLim) : l[1] # l[2]}

NoOp == [name |-> "none"]

InitLim ==
    /\ gca \in Axes
    /\ \E l \in LimPairs, k \in LimPairs :
          /\ xlim = [a \in Axes |-> IF a = "A1" THEN l ELSE <<0, 1>>]
          /\ ylim = [a \in Axes |-> IF a = "A1" THEN k ELSE <<0, 1>>]
    /\ xlabel = [a \in Axes |-> ""]
    /\ ylabel = [a \in Axes |-> ""]
    /\ op = NoOp
    /\ calls = <<>>
    /\ raised = "none"
    /\ ret = 0
    /\ split = NoSplit

NextLim == \E ax \in Axes, which \in CenterWhich : CenterLim(ax, which)

SpecLim == InitLim /\ [][NextLim]_vars

\* The largest absolute value of a pair of limits, stated without Centered
MaxAbs(lim) ==
    CHOOSE m \in 0..(MaxLim + 1) :
        /\ m \in {Abs(lim[1]), Abs(lim[2])}
        /\ m >= Abs(lim[1])
        /\ m >= Abs(lim[2])

\* C1: center_lim sets every axis selected by `which` to exactly [-m, m],
\* m the largest absolute value of the limits that axis had before the call;
\* 'y' selects the y limits, 'x' the x limits, 'xy' and 'yx' both.
C1_CenterLimSymmetric ==
    [][\A a \in Axes :
          (op'.name = "center_lim" /\ op'.ax = a) =>
              /\ op'.which \in {"y", "xy", "yx"} =>
                    ylim'[a] = <<-MaxAbs(ylim[a]), MaxAbs(ylim[a])>>
              /\ op'.which \in {"x", "xy", "yx"} =>
                    xlim'[a] = <<-MaxAbs(xlim[a]), MaxAbs(xlim[a])>>]_vars

\* center_lim(ax, 'xy') has run and left different symmetric limits on x and y
C1_Witness ==
    /\ op.name = "center_lim"
    /\ op.which = "xy"
    /\ raised = "none"
    /\ xlim[op.ax] = <<-2, 2>>
    /\ ylim[op.ax] = <<-1, 1>>

\* ------------------------------------------------------------------------
\* box_plot
\* ------------------------------------------------------------------------
XSplit_LE(box, sd) == Truthy(sd) /\ box[2] - box[1] <= 0

\* if split_detection: if np.diff([box[0], box[1]]) < 0: x_split = True
XSplit(box, sd) == Truthy(sd) /\ box[2] - box[1] < 0

\* if split_detection: if np.diff([box[2], box[3]]) < 0: y_split = True
YSplit(box, sd) == Truthy(sd) /\ box[4] - box[3] < 0

\* The axes whose limits box_plot reads: plt.gca(), whatever `ax` is
BoxLimAxes(ax, cur) == cur

BoxPolylines_OneEach(box, xl, yl, xs, ys) ==
    CASE ys /\ ~xs ->
           << <<<<box[1], box[1], box[2], box[2], box[1]>>,
                <<yl[2], box[3], box[3], yl[2], yl[2]>>>> >>
      [] xs /\ ~ys ->
           << <<<<xl[2], box[1], box[1], xl[2], xl[2]>>,
                <<box[3], box[3], box[4], box[4], box[3]>>>> >>
      [] xs /\ ys ->
           << <<<<xl[2], box[1], box[1]>>, <<box[3], box[3], yl[2]>>>>,
              <<<<xl[1], box[2], box[2]>>, <<box[3], box[3], yl[2]>>>> >>
      [] OTHER ->
           << <<<<box[1], box[1], box[2], box[2]>>,
                <<box[3], box[4], box[4], box[3]>>>> >>

\* The (x, y) point lists box_plot hands to ax.plot, in call order
BoxPolylines(box, xl, yl, xs, ys) ==
    CASE ys /\ ~xs ->
           << <<<<box[1], box[1], box[2], box[2], box[1]>>,
                <<yl[2], box[3], box[3], yl[2], yl[2]>>>>,
              <<<<box[1], box[1], box[2], box[2], box[1]>>,
                <<yl[1], box[4], box[4], yl[1], yl[1]>>>> >>
      [] xs /\ ~ys ->
           << <<<<xl[2], box[1], box[1], xl[2], xl[2]>>,
                <<box[3], box[3], box[4], box[4], box[3]>>>>,
              <<<<xl[1], box[2], box[2], xl[1], xl[1]>>,
                <<box[3], box[3], box[4], box[4], box[3]>>>> >>
      [] xs /\ ys ->
           << <<<<xl[2], box[1], box[1]>>, <<box[3], box[3], yl[2]>>>>,
              <<<<xl[1], box[2], box[2]>>, <<box[3], box[3], yl[2]>>>>,
              <<<<xl[2], box[1], box[1]>>, <<box[4], box[4], yl[1]>>>>,
              <<<<xl[1], box[2], box[2]>>, <<box[4], box[4], yl[1]>>>> >>
      [] OTHER ->
           << <<<<box[1], box[1], box[2], box[2], box[1]>>,
                <<box[3], box[4], box[4], box[3], box[3]>>>> >>

\* The outcome of box_plot(box, ax, split_detection) with current axes cur
box_plot(box, ax, sd, cur) ==
    IF Len(box) # 4
    THEN [raised |-> "RuntimeError", calls |-> <<>>, split |-> NoSplit]
    ELSE LET la == BoxLimAxes(ax, cur)
             xl == xlim[la]
             yl == ylim[la]
             a  == ResolveAx(ax, cur)
             xs == XSplit(box, sd)
             ys == YSplit(box, sd)
             pl == BoxPolylines(box, xl, yl, xs, ys)
         IN [raised |-> "none",
             calls |-> <<Call("get_xlim", la, <<>>), Call("get_ylim", la, <<>>)>>
                       \o [i \in 1..Len(pl) |-> Call("plot", a, pl[i])],
             split |-> [x |-> xs, y |-> ys]]

BoxPlot(box, ax, sd) ==
    LET r == box_plot(box, ax, sd, gca) IN
    /\ op' = [name |-> "box_plot", box |-> box, ax |-> ax, split_detection |-> sd]
    /\ calls' = r.calls
    /\ raised' = r.raised
    /\ split' = r.split
    /\ ret' = 0
    /\ UNCHANGED <<gca, xlim, ylim, xlabel, ylabel>>

Coords == 0..MaxCoord

\* Every 4-element box over the coordinates, and one box of the wrong length
Boxes == (Coords \X Coords \X Coords \X Coords) \cup {<<0, 1, 0>>}

\* split_detection: the default (the string 'True'), True and False
SplitDetections == {"'True'", "True", "False"}

\* Two views with different limits, both wider than every box
Views == {[x |-> <<-3, 3>>, y |-> <<-2, 2>>], [x |-> <<-4, 5>>, y |-> <<-6, 4>>]}

InitBox ==
    /\ gca \in Axes
    /\ \E v \in [Axes -> Views] :
          /\ xlim = [a \in Axes |-> v[a].x]
          /\ ylim = [a \in Axes |-> v[a].y]
    /\ xlabel = [a \in Axes |-> ""]
    /\ ylabel = [a \in Axes |-> ""]
    /\ op = NoOp
    /\ calls = <<>>
    /\ raised = "none"
    /\ ret = 0
    /\ split = NoSplit

NextBox ==
    \E box \in Boxes, ax \in Axes \cup {NoneV}, sd \in SplitDetections :
        BoxPlot(box, ax, sd)

SpecBox == InitBox /\ [][NextBox]_vars

\* box_plot has run to completion on a 4-element box
BoxDone == op.name = "box_plot" /\ Len(op.box) = 4

\* C2: with split detection enabled the x split flag is true exactly when
\* x2 - x1 < 0 and the y split flag exactly when y2 - y1 < 0 (equal start and
\* stop is no split); with split detection disabled both flags stay false.
C2_SplitFlags ==
    BoxDone =>
        IF op.split_detection # "False"
        THEN /\ split.x <=> op.box[1] > op.box[2]
             /\ split.y <=> op.box[3] > op.box[4]
        ELSE ~split.x /\ ~split.y

\* box_plot ran with detection enabled on a box that wraps in x only and has
\* equal y start and stop
C2_Witness ==
    /\ BoxDone
    /\ op.split_detection = "'True'"
    /\ op.box[1] > op.box[2]
    /\ op.box[3] = op.box[4]
    /\ split.x
    /\ ~split.y

\* The number of axes box_plot is asked to split, from its arguments alone
NumSplit ==
    IF op.split_detection = "False" THEN 0
    ELSE (IF op.box[1] > op.box[2] THEN 1 ELSE 0)
         + (IF op.box[3] > op.box[4] THEN 1 ELSE 0)

\* A polyline of 5 points whose first point is its last
Closed5(p) ==
    /\ Len(p[1]) = 5
    /\ Len(p[2]) = 5
    /\ p[1][1] = p[1][5]
    /\ p[2][1] = p[2][5]

\* C7: box_plot issues one plot call when no axis is split, two when exactly
\* one is, four when both are; without a split or with a single split every
\* polyline has 5 points and is closed.
C7_PlotCalls ==
    BoxDone =>
        LET ps == Plots(calls) IN
        /\ NumSplit = 0 => Len(ps) = 1
        /\ NumSplit = 1 => Len(ps) = 2
        /\ NumSplit = 2 => Len(ps) = 4
        /\ NumSplit < 2 => \A i \in 1..Len(ps) : Closed5(ps[i].args)

\* box_plot drew a box split in y only as two polylines
C7_Witness ==
    /\ BoxDone
    /\ split.y
    /\ ~split.x
    /\ Len(Plots(calls)) = 2

\* C9: the limits that extend the pieces of a split box to the plot edge
\* are those of the axes drawn on, also when `ax` is not the current axes.
C9_LimitsOfDrawnAxes ==
    (BoxDone /\ op.ax # NoneV) =>
        LET ps == Plots(calls) IN
        /\ split.x => ps[1].args[1][1] = xlim[op.ax][2]
        /\ (split.y /\ ~split.x) => ps[1].args[2][1] = ylim[op.ax][2]
        /\ (split.y /\ split.x) => ps[1].args[2][3] = ylim[op.ax][2]

\* ------------------------------------------------------------------------
\* plot_line_shaded_std
\* ------------------------------------------------------------------------
\* Elementwise y - std_y and y + std_y
ArrSub(y, s) == [i \in 1..Len(y) |-> y[i] - s[i]]

ArrAdd(y, s) == [i \in 1..Len(y) |-> y[i] + s[i]]

LinePlotArgs_NoSwap(x, y, horizontal) == <<x, y>>

\* if horizontal: ax.plot(x, y, ...) else: ax.plot(y, x, ...)
LinePlotArgs(x, y, horizontal) == IF horizontal THEN <<x, y>> ELSE <<y, x>>

\* ax.fill_between(x, y-std_y, y+std_y) and ax.fill_betweenx(x, y-std_y, y+std_y)
FillArgs(x, y, std_y) == <<x, ArrSub(y, std_y), ArrAdd(y, std_y)>>

\* The colour of the drawn line: the one in line_kwargs, else the cycle's
LineColor(line_kwargs) ==
    IF "color" \in DOMAIN line_kwargs THEN line_kwargs.color ELSE "C0"

\* dict.update: the entries of upd override those of base
Update(base, upd) ==
    [k \in DOMAIN base \cup DOMAIN upd |-> IF k \in DOMAIN upd THEN upd[k] ELSE base[k]]

\* The outcome of plot_line_shaded_std with current axes cur
plot_line_shaded_std(x, y, std_y, horizontal, ax, line_kwargs, fill_kwargs, cur) ==
    LET a  == ResolveAx(ax, cur)
        fk == Update([color |-> LineColor(line_kwargs), alpha |-> "0.35"], fill_kwargs)
    IN [raised |-> "none",
        calls |-> <<[fn |-> "plot", ax |-> a, args |-> LinePlotArgs(x, y, horizontal),
                     kw |-> line_kwargs],
                    [fn |-> IF horizontal THEN "fill_between" ELSE "fill_betweenx",
                     ax |-> a, args |-> FillArgs(x, y, std_y), kw |-> fk]>>,
        ret |-> 1]

PlotLineShadedStd(x, y, std_y, horizontal, ax, line_kwargs, fill_kwargs) ==
    LET r == plot_line_shaded_std(x, y, std_y, horizontal, ax, line_kwargs,
                                  fill_kwargs, gca) IN
    /\ op' = [name |-> "plot_line_shaded_std", x |-> x, y |-> y, std_y |-> std_y,
              horizontal |-> horizontal, ax |-> ax]
    /\ calls' = r.calls
    /\ raised' = r.raised
    /\ ret' = r.ret
    /\ split' = NoSplit
    /\ UNCHANGED <<gca, xlim, ylim, xlabel, ylabel>>

\* Two-point arrays of data values
DataArrays == (0..MaxData) \X (0..MaxData)

\* Two coordinate arrays
CoordArrays == {<<0, 1>>, <<1, 3>>}

\* (line_kwargs, fill_kwargs): both empty, a line colour, a fill colour
KwargPairs ==
    {<<<<>>, <<>>>>, <<[color |-> "k"], <<>>>>, <<<<>>, [color |-> "r"]>>}

InitShade ==
    /\ gca \in Axes
    /\ xlim = [a \in Axes |-> <<0, 1>>]
    /\ ylim = [a \in Axes |-> <<0, 1>>]
    /\ xlabel = [a \in Axes |-> ""]
    /\ ylabel = [a \in Axes |-> ""]
    /\ op = NoOp
    /\ calls = <<>>
    /\ raised = "none"
    /\ ret = 0
    /\ split = NoSplit

NextShade ==
    \E x \in CoordArrays, y \in DataArrays, std_y \in DataArrays,
       horizontal \in BOOLEAN, ax \in {NoneV, "A2"}, kw \in KwargPairs :
        PlotLineShadedStd(x, y, std_y, horizontal, ax, kw[1], kw[2])

SpecShade == InitShade /\ [][NextShade]_vars

\* lo and hi are the bounds of the band of one standard deviation around y
IsBand(lo, hi, y, std_y) ==
    /\ Len(lo) = Len(y)
    /\ Len(hi) = Len(y)
    /\ \A i \in 1..Len(y) : lo[i] + std_y[i] = y[i] /\ hi[i] = y[i] + std_y[i]

\* C5: plot_line_shaded_std shades the band between y - std_y and y + std_y:
\* horizontal plots the line as (x, y) and fills along x with fill_between,
\* otherwise the line is (y, x) and the fill runs along the other axis with
\* fill_betweenx, between the same bounds; the line's handle is returned.
C5_ShadedBand ==
    op.name = "plot_line_shaded_std" =>
        /\ Len(calls) = 2
        /\ calls[1].fn = "plot"
        /\ calls[1].args = IF op.horizontal THEN <<op.x, op.y>> ELSE <<op.y, op.x>>
        /\ calls[2].fn = IF op.horizontal THEN "fill_between" ELSE "fill_betweenx"
        /\ calls[2].ax = calls[1].ax
        /\ calls[2].args[1] = op.x
        /\ IsBand(calls[2].args[2], calls[2].args[3], op.y, op.std_y)
        /\ ret = 1

\* a vertical line with a band of non-zero width has been drawn
C5_Witness ==
    /\ op.name = "plot_line_shaded_std"
    /\ ~op.horizontal
    /\ op.x # op.y
    /\ op.std_y = <<1, 1>>
    /\ calls[2].fn = "fill_betweenx"

\* ------------------------------------------------------------------------
\* draw_dens_contours_teos10
\* Salinity, temperature and density are fixed-point numbers: the integer v
\* stands for v / Scale.
\* ------------------------------------------------------------------------
RECURSIVE Fact(_)
Fact(n) == IF n <= 1 THEN 1 ELSE n * Fact(n - 1)

\* Limits are multiples of Unit, so that np.linspace is exact for every grid
Unit == Fact(MaxGrid - 1)

\* np.floor and np.ceil of a fixed-point number
Floor(v) == v - (v % Scale)

Ceil(v) == -Floor(-v)

\* np.linspace(lo, hi, n)
linspace(lo, hi, n) ==
    IF n = 1 THEN <<lo>>
    ELSE [i \in 1..n |-> lo + ((i - 1) * (hi - lo)) \div (n - 1)]

\* np.meshgrid(x, y): two grids of Len(y) rows and Len(x) columns
MeshX(x, y) == [i \in 1..Len(y) |-> [j \in 1..Len(x) |-> x[j]]]

MeshY(x, y) == [i \in 1..Len(y) |-> [j \in 1..Len(x) |-> y[i]]]

arange_Closed(start, stop, step) ==
    LET n == IF stop >= start THEN ((stop - start) \div step) + 1 ELSE 0
    IN [i \in 1..n |-> start + (i - 1) * step]

\* np.arange(start, stop, step) for step > 0: ceil((stop - start) / step) values
arange(start, stop, step) ==
    LET n == IF stop > start THEN ((stop - start) + step - 1) \div step ELSE 0
    IN [i \in 1..n |-> start + (i - 1) * step]

SigmaNames == {"sigma0", "sigma1", "sigma2", "sigma3", "sigma4"}

\* The reference level of a sigma function, its last character
SigmaIndex(sigma) ==
    CASE sigma = "sigma0" -> 0 [] sigma = "sigma1" -> 1 [] sigma = "sigma2" -> 2
      [] sigma = "sigma3" -> 3 [] sigma = "sigma4" -> 4 [] OTHER -> 0

\* gsw.sigmaN(SA, CT) at one point.  The library is outside the repository:
\* it is modelled by a linear equation of state, denser with salt and with
\* the reference level, lighter with temperature.
sigma_point(sigma, sa, ct) == 2 * sa - ct + Scale * SigmaIndex(sigma)

\* sigma_func(ss, tt) on grids
sigma_func(sigma, ss, tt) ==
    [i \in 1..Len(ss) |-> [j \in 1..Len(ss[i]) |-> sigma_point(sigma, ss[i][j], tt[i][j])]]

GridValues(g) == {g[i][j] : i \in 1..Len(g), j \in 1..Len(g[1])}

SetMin(S) == CHOOSE m \in S : \A v \in S : m <= v

SetMax(S) == CHOOSE m \in S : \A v \in S : m >= v

\* np.arange(np.floor(sig.min()), np.ceil(sig.max()), dens_interval)
Levels(sig, dens_interval) ==
    arange(Floor(SetMin(GridValues(sig))), Ceil(SetMax(GridValues(sig))), dens_interval)

\* The limits and the get_*lim calls of the two branches of salt_on_x:
\* a limit that is None (or empty) is read from the axes
DensLimits(a, salt_on_x, slim, tlim) ==
    IF salt_on_x
    THEN [slim |-> IF slim = <<>> THEN xlim[a] ELSE slim,
          tlim |-> IF tlim = <<>> THEN ylim[a] ELSE tlim,
          calls |-> (IF slim = <<>> THEN <<Call("get_xlim", a, <<>>)>> ELSE <<>>)
                    \o (IF tlim = <<>> THEN <<Call("get_ylim", a, <<>>)>> ELSE <<>>)]
    ELSE [slim |-> IF slim = <<>> THEN ylim[a] ELSE slim,
          tlim |-> IF tlim = <<>> THEN xlim[a] ELSE tlim,
          calls |-> (IF tlim = <<>> THEN <<Call("get_xlim", a, <<>>)>> ELSE <<>>)
                    \o (IF slim = <<>> THEN <<Call("get_ylim", a, <<>>)>> ELSE <<>>)]

\* x = np.linspace(*slim, density_grid), in both branches of salt_on_x
DensX(lims, salt_on_x, density_grid) == linspace(lims.slim[1], lims.slim[2], density_grid)

\* y = np.linspace(*tlim, density_grid), in both branches of salt_on_x
DensY(lims, salt_on_x, density_grid) == linspace(lims.tlim[1], lims.tlim[2], density_grid)

\* ss, tt = np.meshgrid(x, y) if salt_on_x else tt, ss = np.meshgrid(x, y)
DensSS(x, y, salt_on_x) == IF salt_on_x THEN MeshX(x, y) ELSE MeshY(x, y)

DensTT(x, y, salt_on_x) == IF salt_on_x THEN MeshY(x, y) ELSE MeshX(x, y)

\* The outcome of draw_dens_contours_teos10 with current axes cur
draw_dens_contours_teos10(sigma, add_labels, ax, density_grid, dens_interval, salt_on_x, slim, tlim, cur) ==
    LET a == ResolveAx(ax, cur) IN
    IF sigma \notin SigmaNames
    THEN [raised |-> "ValueError", calls |-> <<>>]
    ELSE LET lims == DensLimits(a, salt_on_x, slim, tlim)
             x    == DensX(lims, salt_on_x, density_grid)
             y    == DensY(lims, salt_on_x, density_grid)
             ss   == DensSS(x, y, salt_on_x)
             tt   == DensTT(x, y, salt_on_x)
             sig  == sigma_func(sigma, ss, tt)
             ckw  == [levels |-> Levels(sig, dens_interval), colors |-> "0.4",
                      linestyles |-> "--", linewidths |-> "0.5"]
         IN [raised |-> "none",
             calls |-> lims.calls
                       \o <<[fn |-> "sigma_func", ax |-> a, args |-> <<ss, tt>>,
                             kw |-> [name |-> sigma]],
                            [fn |-> "contour", ax |-> a, args |-> <<x, y, sig>>,
                             kw |-> ckw],
                            [fn |-> "clabel", ax |-> a, args |-> <<>>,
                             kw |-> [fmt |-> "%.02f"]]>>
                       \o (IF add_labels
                           THEN <<[fn |-> "text", ax |-> cur, args |-> <<sigma>>,
                                   kw |-> [transform |-> a, color |-> ckw.colors]]>>
                           ELSE <<>>)]

DrawDensContours(sigma, add_labels, ax, density_grid, dens_interval, salt_on_x, slim, tlim) ==
    LET r == draw_dens_contours_teos10(sigma, add_labels, ax, density_grid,
                                       dens_interval, salt_on_x, slim, tlim, gca) IN
    /\ op' = [name |-> "draw_dens_contours_teos10", sigma |-> sigma, ax |-> ax,
              add_labels |-> add_labels, density_grid |-> density_grid,
              dens_interval |-> dens_interval, salt_on_x |-> salt_on_x,
              slim |-> slim, tlim |-> tlim]
    /\ calls' = r.calls
    /\ raised' = r.raised
    /\ ret' = 0
    /\ split' = NoSplit
    /\ UNCHANGED <<gca, xlim, ylim, xlabel, ylabel>>

\* The first axes has salinity on x and temperature on y, the second the
\* reverse
InitDens ==
    /\ gca \in Axes
    /\ xlim = [a \in Axes |-> IF a = "A1" THEN <<0, 2 * Unit>> ELSE <<Unit, 4 * Unit>>]
    /\ ylim = [a \in Axes |-> IF a = "A1" THEN <<Unit, 4 * Unit>> ELSE <<0, 2 * Unit>>]
    /\ xlabel = [a \in Axes |-> ""]
    /\ ylabel = [a \in Axes |-> ""]
    /\ op = NoOp
    /\ calls = <<>>
    /\ raised = "none"
    /\ ret = 0
    /\ split = NoSplit

\* slim and tlim arguments: None, a range, a single value
SlimArgs == {<<>>, <<0, 3 * Unit>>, <<Unit, Unit>>}

TlimArgs == {<<>>, <<2 * Unit, 2 * Unit>>}

NextDens ==
    \E sigma \in {"sigma0", "sigma5"}, add_labels \in BOOLEAN,
       ax \in {NoneV, "A2"}, density_grid \in 1..MaxGrid,
       dens_interval \in 1..MaxInterval, salt_on_x \in BOOLEAN,
       slim \in SlimArgs, tlim \in TlimArgs :
        DrawDensContours(sigma, add_labels, ax, density_grid, dens_interval,
                         salt_on_x, slim, tlim)

SpecDens == InitDens /\ [][NextDens]_vars

\* The first recorded call of a library function
CallOf(fn) == SelectSeq(calls, LAMBDA c : c.fn = fn)[1]

\* draw_dens_contours_teos10 has run to completion
DensDone == op.name = "draw_dens_contours_teos10" /\ raised = "none"

\* floor and ceil of a fixed-point number, stated without Floor and Ceil
FloorOf(v) == CHOOSE k \in (v - Scale)..v : k % Scale = 0 /\ k <= v /\ v < k + Scale

CeilOf(v) == CHOOSE k \in v..(v + Scale) : k % Scale = 0 /\ v <= k /\ k - Scale < v

\* lev lists, in order, exactly the values lo + k * d, k = 0, 1, ..., that
\* are strictly less than hi
ExactlyBelow(lev, lo, hi, d) ==
    /\ \A i \in 1..Len(lev) : lev[i] = lo + (i - 1) * d /\ lev[i] < hi
    /\ lo + Len(lev) * d >= hi

\* C3 as stated: the default levels are exactly the values
\* floor(min(sig)) + k * dens_interval below ceil(max(sig)), and the first
\* level is floor(min(sig)).
C3_LevelsAsStated ==
    DensDone =>
        LET c   == CallOf("contour")
            lev == c.kw.levels
            lo  == FloorOf(SetMin(GridValues(c.args[3])))
            hi  == CeilOf(SetMax(GridValues(c.args[3])))
        IN /\ ExactlyBelow(lev, lo, hi, op.dens_interval)
           /\ Len(lev) >= 1
           /\ lev[1] = lo
           /\ \A i \in 1..Len(lev) : lev[i] # hi

\* C3, amended: the default levels are exactly the values
\* floor(min(sig)) + k * dens_interval below ceil(max(sig)); the first level
\* is floor(min(sig)) when floor(min(sig)) < ceil(max(sig)), and there is no
\* level at all when the two are equal; ceil(max(sig)) is never a level.
C3_Levels ==
    DensDone =>
        LET c   == CallOf("contour")
            lev == c.kw.levels
            lo  == FloorOf(SetMin(GridValues(c.args[3])))
            hi  == CeilOf(SetMax(GridValues(c.args[3])))
        IN /\ ExactlyBelow(lev, lo, hi, op.dens_interval)
           /\ lo < hi => (Len(lev) >= 1 /\ lev[1] = lo)
           /\ lo = hi => lev = <<>>
           /\ \A i \in 1..Len(lev) : lev[i] # hi

\* contours were drawn for a density field whose minimum is not a whole
\* number, with several levels the last of which is one interval below the
\* ceiling of the maximum
C3_Witness ==
    /\ DensDone
    /\ LET c   == CallOf("contour")
           lev == c.kw.levels
       IN /\ Len(lev) >= 2
          /\ SetMin(GridValues(c.args[3])) % Scale # 0
          /\ lev[Len(lev)] + op.dens_interval = CeilOf(SetMax(GridValues(c.args[3])))

\* The limits of salinity and of temperature of a call, from its arguments
\* and the axes it draws on
DensAxes == IF op.ax = NoneV THEN gca ELSE op.ax

SaltLimits ==
    IF op.slim # <<>> THEN op.slim
    ELSE IF op.salt_on_x THEN xlim[DensAxes] ELSE ylim[DensAxes]

TempLimits ==
    IF op.tlim # <<>> THEN op.tlim
    ELSE IF op.salt_on_x THEN ylim[DensAxes] ELSE xlim[DensAxes]

SeqValues(q) == {q[i] : i \in 1..Len(q)}

\* C10: for salt_on_x true and false alike, the salinity grid handed to the
\* sigma function takes its values from the salinity limits, the temperature
\* grid from the temperature limits, and the horizontal coordinates given to
\* contour span the limits of the quantity on the x axis.
C10_GridsFollowLimits ==
    DensDone =>
        LET sc == CallOf("sigma_func")
            cc == CallOf("contour")
            n  == op.density_grid
            hx == IF op.salt_on_x THEN SaltLimits ELSE TempLimits
        IN /\ GridValues(sc.args[1]) = SeqValues(linspace(SaltLimits[1], SaltLimits[2], n))
           /\ GridValues(sc.args[2]) = SeqValues(linspace(TempLimits[1], TempLimits[2], n))
           /\ cc.args[1][1] = hx[1]
           /\ cc.args[1][n] = linspace(hx[1], hx[2], n)[n]

\* ------------------------------------------------------------------------
\* tsdiagram
\* ------------------------------------------------------------------------
\* gsw.SA_from_SP and gsw.CT_from_pt belong to the external library: their
\* results are the terms that record which function made them from what
SA_from_SP(sp, p, lon, lat) == <<"SA_from_SP", sp, p, lon, lat>>

CT_from_pt(sa, pt) == <<"CT_from_pt", sa, pt>>

TempLabel(convert_teos10) ==
    IF convert_teos10 THEN "Conservative Temperature" ELSE "Potential Temperature"

SaltLabel(convert_teos10) ==
    IF convert_teos10 THEN "Absolute Salinity" ELSE "Practical Salinity"

\* any([a is None for a in [lon, lat, pressure]])
AnyNone(lon, lat, pressure) == lon = NoneV \/ lat = NoneV \/ pressure = NoneV

ConvertCalls_TempFirst(salt, temp, lon, lat, pressure) ==
    <<[fn |-> "CT_from_pt", ax |-> NoneV, args |-> <<salt, temp>>,
       result |-> CT_from_pt(salt, temp)],
      [fn |-> "SA_from_SP", ax |-> NoneV, args |-> <<salt, pressure, lon, lat>>,
       result |-> SA_from_SP(salt, pressure, lon, lat)]>>

\* salt = gsw.SA_from_SP(salt, pressure, lon, lat); temp = gsw.CT_from_pt(salt, temp)
ConvertCalls(salt, temp, lon, lat, pressure) ==
    LET sa == SA_from_SP(salt, pressure, lon, lat) IN
    <<[fn |-> "SA_from_SP", ax |-> NoneV, args |-> <<salt, pressure, lon, lat>>,
       result |-> sa],
      [fn |-> "CT_from_pt", ax |-> NoneV, args |-> <<sa, temp>>,
       result |-> CT_from_pt(sa, temp)]>>

\* The kinds of value `color` can have, by the isinstance tests applied to it
ColorKinds == {"None", "str", "tuple", "list", "ndarray", "DataArray", "int"}

ColorbarStep_Always(color, draw_cbar) ==
    IF color # "None" THEN "colorbar" ELSE "pass"

\* The colorbar branch once scatter and the contours are done:
\* "pass", "colorbar" or "RuntimeError"
ColorbarStep(color, draw_cbar) ==
    IF draw_cbar /\ color # "None"
    THEN IF color \in {"str", "tuple"} THEN "pass"
         ELSE IF color \in {"list", "ndarray", "DataArray"} THEN "colorbar"
         ELSE "RuntimeError"
    ELSE "pass"

LabelCalls_BeforeCheck(a, convert_teos10, add_labels, lon, lat, pressure) ==
    IF add_labels
    THEN <<Call("set_xlabel", a, <<SaltLabel(convert_teos10)>>),
           Call("set_ylabel", a, <<TempLabel(convert_teos10)>>)>>
    ELSE <<>>

\* if add_labels: ax.set_xlabel(salt_label); ax.set_ylabel(temp_label),
\* reached only when the conversion did not raise
LabelCalls(a, convert_teos10, add_labels, lon, lat, pressure) ==
    IF add_labels /\ ~(convert_teos10 /\ AnyNone(lon, lat, pressure))
    THEN <<Call("set_xlabel", a, <<SaltLabel(convert_teos10)>>),
           Call("set_ylabel", a, <<TempLabel(convert_teos10)>>)>>
    ELSE <<>>

\* The outcome of tsdiagram with current axes cur.  ts_kwargs carries sigma
\* and density_grid; the other arguments of the contours keep their defaults
\* (dens_interval=1.0, salt_on_x=True, slim=None, tlim=None, add_labels=True).
tsdiagram(salt, temp, color, lon, lat, pressure, convert_teos10, ts_kwargs, ax, draw_density_contours, draw_cbar, add_labels, cur) ==
    LET a      == ResolveAx(ax, cur)
        fails  == convert_teos10 /\ AnyNone(lon, lat, pressure)
        conv   == IF convert_teos10 /\ ~fails
                  THEN ConvertCalls(salt, temp, lon, lat, pressure) ELSE <<>>
        salt2  == IF conv = <<>> THEN salt
                  ELSE SelectSeq(conv, LAMBDA c : c.fn = "SA_from_SP")[1].result
        temp2  == IF conv = <<>> THEN temp
                  ELSE SelectSeq(conv, LAMBDA c : c.fn = "CT_from_pt")[1].result
        labels == LabelCalls(a, convert_teos10, add_labels, lon, lat, pressure)
        scat   == <<[fn |-> "scatter", ax |-> a, args |-> <<salt2, temp2>>,
                     kw |-> [s |-> NoneV, c |-> color]]>>
        dens   == IF draw_density_contours
                  THEN draw_dens_contours_teos10(ts_kwargs.sigma, TRUE, a,
                                                 ts_kwargs.density_grid, Scale, TRUE,
                                                 <<>>, <<>>, cur)
                  ELSE [raised |-> "none", calls |-> <<>>]
        cbar   == ColorbarStep(color, draw_cbar)
        xl     == IF labels = <<>> THEN xlabel[a] ELSE SaltLabel(convert_teos10)
        yl     == IF labels = <<>> THEN ylabel[a] ELSE TempLabel(convert_teos10)
    IN IF fails
       THEN [raised |-> "ValueError", calls |-> labels, ret |-> 0,
             xlabel |-> IF labels = <<>> THEN xlabel[a] ELSE SaltLabel(convert_teos10),
             ylabel |-> IF labels = <<>> THEN ylabel[a] ELSE TempLabel(convert_teos10)]
       ELSE IF dens.raised # "none"
       THEN [raised |-> dens.raised, calls |-> conv \o labels \o scat \o dens.calls,
             ret |-> 0, xlabel |-> xl, ylabel |-> yl]
       ELSE IF cbar = "RuntimeError"
       THEN [raised |-> "RuntimeError", calls |-> conv \o labels \o scat \o dens.calls,
             ret |-> 0, xlabel |-> xl, ylabel |-> yl]
       ELSE [raised |-> "none",
             calls |-> conv \o labels \o scat \o dens.calls
                       \o (IF cbar = "colorbar"
                           THEN <<[fn |-> "colorbar", ax |-> a, args |-> <<"scatter">>,
                                   kw |-> [fig |-> "gcf"]]>>
                           ELSE <<>>),
             ret |-> Len(conv) + Len(labels) + 1, xlabel |-> xl, ylabel |-> yl]

Tsdiagram(salt, temp, color, lon, lat, pressure, convert_teos10, ts_kwargs, ax, draw_density_contours, draw_cbar, add_labels) ==
    LET r == tsdiagram(salt, temp, color, lon, lat, pressure, convert_teos10,
                       ts_kwargs, ax, draw_density_contours, draw_cbar, add_labels,
                       gca)
        a == ResolveAx(ax, gca)
    IN
    /\ op' = [name |-> "tsdiagram", salt |-> salt, temp |-> temp, color |-> color,
              lon |-> lon, lat |-> lat, pressure |-> pressure,
              convert_teos10 |-> convert_teos10, ts_kwargs |-> ts_kwargs, ax |-> ax,
              draw_density_contours |-> draw_density_contours,
              draw_cbar |-> draw_cbar, add_labels |-> add_labels]
    /\ xlabel' = [xlabel EXCEPT ![a] = r.xlabel]
    /\ ylabel' = [ylabel EXCEPT ![a] = r.ylabel]
    /\ calls' = r.calls
    /\ raised' = r.raised
    /\ ret' = r.ret
    /\ split' = NoSplit
    /\ UNCHANGED <<gca, xlim, ylim>>

InitTS ==
    /\ gca \in Axes
    /\ xlim = [a \in Axes |-> IF a = "A1" THEN <<0, 2 * Unit>> ELSE <<Unit, 4 * Unit>>]
    /\ ylim = [a \in Axes |-> IF a = "A1" THEN <<Unit, 4 * Unit>> ELSE <<0, 2 * Unit>>]
    /\ xlabel = [a \in Axes |-> ""]
    /\ ylabel = [a \in Axes |-> ""]
    /\ op = NoOp
    /\ calls = <<>>
    /\ raised = "none"
    /\ ret = 0
    /\ split = NoSplit

\* (lon, lat, pressure): all given, one of them None, all None
PositionArgs ==
    {<<"lon", "lat", "p">>, <<"lon", NoneV, "p">>, <<NoneV, NoneV, NoneV>>}

\* ts_kwargs: a valid and an invalid sigma function, on the coarsest grid
TsKwargs ==
    {[sigma |-> "sigma0", density_grid |-> MaxGrid],
     [sigma |-> "sigma5", density_grid |-> MaxGrid]}

\* Whether contours are drawn, and with which ts_kwargs
ContourArgs ==
    {<<FALSE, [sigma |-> "sigma0", density_grid |-> MaxGrid]>>}
        \cup {<<TRUE, k>> : k \in TsKwargs}

NextTS ==
    \E color \in ColorKinds, pos \in PositionArgs, convert_teos10 \in BOOLEAN,
       cont \in ContourArgs, draw_cbar \in BOOLEAN, add_labels \in BOOLEAN :
        Tsdiagram(<<"SP">>, <<"pt">>, color, pos[1], pos[2], pos[3], convert_teos10,
                  cont[2], NoneV, cont[1], draw_cbar, add_labels)

SpecTS == InitTS /\ [][NextTS]_vars

\* tsdiagram was the last helper called
TsCalled == op.name = "tsdiagram"

HasCall(fn) == \E i \in 1..Len(calls) : calls[i].fn = fn

\* The position of the first call of fn in the order of the calls
IndexOf(fn) == CHOOSE i \in 1..Len(calls) : calls[i].fn = fn /\ \A j \in 1..(i - 1) : calls[j].fn # fn

AllGiven == op.lon # NoneV /\ op.lat # NoneV /\ op.pressure # NoneV

\* C4: with convert_teos10 and lon, lat and pressure given, salinity is
\* converted first, temperature is converted from the converted salinity,
\* and only then scatter is called, with the two converted values; without
\* convert_teos10 nothing is converted and scatter gets salt and temp as given.
C4_ConvertThenScatter ==
    TsCalled =>
        /\ (op.convert_teos10 /\ AllGiven) =>
              /\ HasCall("SA_from_SP") /\ HasCall("CT_from_pt") /\ HasCall("scatter")
              /\ IndexOf("SA_from_SP") < IndexOf("CT_from_pt")
              /\ IndexOf("CT_from_pt") < IndexOf("scatter")
              /\ CallOf("SA_from_SP").args = <<op.salt, op.pressure, op.lon, op.lat>>
              /\ CallOf("CT_from_pt").args = <<CallOf("SA_from_SP").result, op.temp>>
              /\ CallOf("scatter").args
                    = <<CallOf("SA_from_SP").result, CallOf("CT_from_pt").result>>
        /\ ~op.convert_teos10 =>
              /\ ~HasCall("SA_from_SP") /\ ~HasCall("CT_from_pt")
              /\ HasCall("scatter")
              /\ CallOf("scatter").args = <<op.salt, op.temp>>

\* a converting call has scattered the converted values
C4_Witness ==
    /\ TsCalled
    /\ op.convert_teos10
    /\ AllGiven
    /\ HasCall("scatter")
    /\ CallOf("scatter").args[2] = <<"CT_from_pt", <<"SA_from_SP", op.salt, "p", "lon", "lat">>, op.temp>>

\* C6: tsdiagram with convert_teos10 and one of lon, lat, pressure None raises
\* ValueError before any conversion, label or scatter call: it makes no
\* library call and leaves the labels of the axes as they were.
C6_RaisesBeforeAnyEffect ==
    [][(/\ op'.name = "tsdiagram"
        /\ op'.convert_teos10
        /\ (op'.lon = NoneV \/ op'.lat = NoneV \/ op'.pressure = NoneV))
       => /\ raised' = "ValueError"
          /\ calls' = <<>>
          /\ ret' = 0
          /\ xlabel' = xlabel
          /\ ylabel' = ylabel
          /\ xlim' = xlim
          /\ ylim' = ylim]_vars

\* a call asking for labels raised for a missing latitude on axes that an
\* earlier call had labelled
C6_Witness ==
    /\ TsCalled
    /\ op.convert_teos10
    /\ op.add_labels
    /\ op.lon # NoneV
    /\ op.lat = NoneV
    /\ raised = "ValueError"
    /\ xlabel[gca] = "Practical Salinity"

\* C8 as stated: once scatter is drawn, a colorbar is added exactly when
\* draw_cbar holds and color is a list, ndarray or DataArray; None, a string,
\* a tuple or draw_cbar false give no colorbar and no error; any other color
\* with draw_cbar raises RuntimeError, after scatter and the contours.
C8_ColorbarAsStated ==
    (TsCalled /\ HasCall("scatter")) =>
        /\ HasCall("colorbar")
              <=> (op.draw_cbar /\ op.color \in {"list", "ndarray", "DataArray"})
        /\ (op.color \in {"None", "str", "tuple"} \/ ~op.draw_cbar)
              => (~HasCall("colorbar") /\ raised = "none")
        /\ (op.draw_cbar /\ op.color \notin {"None", "str", "tuple", "list", "ndarray", "DataArray"})
              => raised = "RuntimeError"
        /\ raised = "RuntimeError"
              => (op.draw_density_contours => HasCall("contour"))

\* The contours are requested with a sigma name that
\* draw_dens_contours_teos10 rejects
ContoursRaise ==
    op.draw_density_contours
        /\ op.ts_kwargs.sigma \notin {"sigma0", "sigma1", "sigma2", "sigma3", "sigma4"}

\* C8, amended: the statement holds whenever the contours, if requested, are
\* drawn without error; when draw_dens_contours_teos10 raises, its ValueError
\* ends the call after scatter, with no colorbar, whatever color is.
C8_Colorbar ==
    (TsCalled /\ HasCall("scatter")) =>
        /\ ~ContoursRaise =>
              /\ HasCall("colorbar")
                    <=> (op.draw_cbar /\ op.color \in {"list", "ndarray", "DataArray"})
              /\ (op.color \in {"None", "str", "tuple"} \/ ~op.draw_cbar)
                    => (~HasCall("colorbar") /\ raised = "none")
              /\ (op.draw_cbar /\ op.color \notin {"None", "str", "tuple", "list", "ndarray", "DataArray"})
                    => raised = "RuntimeError"
        /\ raised = "RuntimeError"
              => (op.draw_density_contours => HasCall("contour"))
        /\ ContoursRaise => (raised = "ValueError" /\ ~HasCall("colorbar"))

\* a colorbar was added for a DataArray colour after scatter and contours
C8_Witness ==
    /\ TsCalled
    /\ op.draw_cbar
    /\ op.color = "DataArray"
    /\ op.draw_density_contours
    /\ HasCall("contour")
    /\ HasCall("colorbar")
    /\ IndexOf("scatter") < IndexOf("contour")
    /\ IndexOf("contour") < IndexOf("colorbar")

====
